---- MODULE Spec2Model ----
(***************************************************************************)
(* Reader4: the normalization pipeline of src/reader3.py.                  *)
(*                                                                         *)
(* A Python str is modelled as a sequence of one-character strings, so     *)
(* that splitting, stripping, filtering and URL-decoding are computed      *)
(* character by character as the code computes them.                       *)
(*                                                                         *)
(* Three specifications:                                                   *)
(*   Spec        the processing run (process_epub / process_text_file /    *)
(*               save_to_pickle) over one output directory;                *)
(*   SpecFn      the string functions of the pipeline applied to every     *)
(*               input of a bounded set;                                   *)
(*   SpecServer  the request handlers of src/server.py over the upload     *)
(*               directory, the library directory and the book cache.      *)
(***************************************************************************)
EXTENDS Integers, Sequences, FiniteSets, TLC

VARIABLES
    fs,              \* the output directory: [exists, pkl, images]
    pc,              \* position of the processing run
    raised,          \* the exception that ended the run, "none" otherwise
    src,             \* the source handed to the run
    image_map,       \* process_epub: image_map
    toc_structure,   \* process_epub: toc_structure
    spine_chapters,  \* process_epub / process_text_file: spine_chapters
    ret,             \* the Book returned by the run, NoBook before
    fn,              \* SpecFn: the function under application
    arg,             \* SpecFn: its argument
    out,             \* SpecFn: its result, <<>> before the call
    uploads,         \* SpecServer: BOOK_UPLOAD_DIR, file name -> content
    disk,            \* SpecServer: BOOKS_DIR, folder name -> directory
    cache,           \* SpecServer: the lru_cache of load_book_cached
    req,             \* SpecServer: the requests in flight
    loop,            \* SpecServer: the request the event loop is running
    resp             \* SpecServer: what the last load_book_cached call returned

srv == <<uploads, disk, cache, req, loop, resp>>

vars == <<fs, pc, raised, src, image_map, toc_structure, spine_chapters, ret, fn, arg, out,
          uploads, disk, cache, req, loop, resp>>

----------------------------------------------------------------------------
(* Bounds of the model *)

MaxTextLen == 7
MaxCap == 3
MaxNameLen == 4
MaxRefLen == 5
MaxHrefLen == 4
MaxItems == 2
MaxSpine == 2

(* Program constants *)

DefaultMaxChars == 8000

----------------------------------------------------------------------------
(* Python str primitives *)

Range(s) == {s[i] : i \in DOMAIN s}

StrsUpTo(alphabet, n) == UNION {[1..k -> alphabet] : k \in 0..n}

WhiteSpace == {" ", "\n", "\r", "\t"}

LowerLetters == {"a", "b", "h", "l", "m", "t", "x"}

\* str.upper() / str.lower() on one character of the model's alphabet
UpperOf(c) ==
    CASE c = "a" -> "A" [] c = "b" -> "B" [] c = "h" -> "H" [] c = "l" -> "L"
      [] c = "m" -> "M" [] c = "t" -> "T" [] c = "x" -> "X" [] OTHER -> c

UpperLetters == {UpperOf(c) : c \in LowerLetters}

LowerOf(c) ==
    IF c \in UpperLetters THEN CHOOSE l \in LowerLetters : UpperOf(l) = c ELSE c

\* str.isalpha() on one character
Letters == LowerLetters \cup UpperLetters

Digits == {"0", "2"}

HexDigits == {"0", "2"}

RECURSIVE LStrip(_)
LStrip(s) ==
    IF s # <<>> /\ Head(s) \in WhiteSpace THEN LStrip(Tail(s)) ELSE s

RECURSIVE RStrip(_)
RStrip(s) ==
    IF s # <<>> /\ s[Len(s)] \in WhiteSpace
    THEN RStrip(SubSeq(s, 1, Len(s) - 1))
    ELSE s

\* str.strip()
Strip(s) == RStrip(LStrip(s))

IsPrefixAt(s, i, pat) ==
    /\ i + Len(pat) - 1 <= Len(s)
    /\ SubSeq(s, i, i + Len(pat) - 1) = pat

\* str.replace(pat, rep), pat non-empty: leftmost non-overlapping occurrences
Replace(s, pat, rep) ==
    LET RECURSIVE F(_, _)
        F(i, acc) ==
            IF i > Len(s) THEN acc
            ELSE IF IsPrefixAt(s, i, pat) THEN F(i + Len(pat), acc \o rep)
            ELSE F(i + 1, Append(acc, s[i]))
    IN F(1, <<>>)

\* str.split(sep), sep non-empty: always at least one piece
Split(s, sep) ==
    LET RECURSIVE F(_, _, _)
        F(i, cur, acc) ==
            IF i > Len(s) THEN Append(acc, cur)
            ELSE IF IsPrefixAt(s, i, sep) THEN F(i + Len(sep), <<>>, Append(acc, cur))
            ELSE F(i + 1, Append(cur, s[i]), acc)
    IN F(1, <<>>, <<>>)

\* sep.join(parts)
RECURSIVE Join(_, _)
Join(parts, sep) ==
    IF parts = <<>> THEN <<>>
    ELSE IF Len(parts) = 1 THEN parts[1]
    ELSE parts[1] \o sep \o Join(Tail(parts), sep)

\* os.path.basename: what follows the last "/"
Basename(p) ==
    LET pieces == Split(p, <<"/">>) IN pieces[Len(pieces)]

HexVal(c) == CASE c = "0" -> 0 [] c = "2" -> 2

\* the characters the two-digit escapes of the model's alphabet decode to
Chr(n) ==
    CASE n = 0 -> "NUL"
      [] n = 2 -> "STX"
      [] n = 32 -> " "
      [] n = 34 -> "QUOT"

\* urllib.parse.unquote: "%" followed by two hex digits becomes the character
\* of that code; any other "%" is kept as it is
unquote(s) ==
    LET RECURSIVE F(_, _)
        F(i, acc) ==
            IF i > Len(s) THEN acc
            ELSE IF /\ s[i] = "%"
                    /\ i + 2 <= Len(s)
                    /\ s[i + 1] \in HexDigits
                    /\ s[i + 2] \in HexDigits
                 THEN F(i + 3, Append(acc, Chr(16 * HexVal(s[i + 1]) + HexVal(s[i + 2]))))
                 ELSE F(i + 1, Append(acc, s[i]))
    IN F(1, <<>>)

\* str.title(): the first letter of every run of letters upper-cased, the rest
\* lower-cased
Title(s) ==
    LET RECURSIVE F(_, _)
        F(i, acc) ==
            IF i > Len(s) THEN acc
            ELSE IF i > 1 /\ s[i - 1] \in Letters
                 THEN F(i + 1, Append(acc, LowerOf(s[i])))
                 ELSE F(i + 1, Append(acc, UpperOf(s[i])))
    IN F(1, <<>>)

RECURSIVE Flatten(_)
Flatten(seqs) ==
    IF seqs = <<>> THEN <<>> ELSE Head(seqs) \o Flatten(Tail(seqs))

RECURSIVE SumLen(_)
SumLen(seqs) ==
    IF seqs = <<>> THEN 0 ELSE Len(Head(seqs)) + SumLen(Tail(seqs))

----------------------------------------------------------------------------
(* split_plain_text_sections *)

BlankLine == <<"\n", "\n">>

\* line 302: the stripped, non-empty blank-line-delimited blocks
Blocks(text) ==
    LET pieces == Split(Replace(text, <<"\r">>, <<>>), BlankLine)
        RECURSIVE F(_)
        F(ps) ==
            IF ps = <<>> THEN <<>>
            ELSE IF Strip(Head(ps)) # <<>> THEN <<Strip(Head(ps))>> \o F(Tail(ps))
            ELSE F(Tail(ps))
    IN F(pieces)

ShouldCloseIgnoringBlock(current, length, block_len, max_chars) ==
    current # <<>> /\ length > max_chars

\* line 312: close the current section before this block?
ShouldClose(current, length, block_len, max_chars) ==
    current # <<>> /\ length + block_len > max_chars

JoinBlocksSingleNewline(current) == Join(current, <<"\n">>)

\* lines 313, 321: '\n\n'.join(current)
JoinBlocks(current) == Join(current, BlankLine)

split_plain_text_sections(text, max_chars) ==
    LET blocks == Blocks(text)
        RECURSIVE Loop(_, _, _, _)
        Loop(i, sections, current, length) ==
            IF i > Len(blocks)
            THEN IF current # <<>> THEN Append(sections, JoinBlocks(current)) ELSE sections
            ELSE LET block == blocks[i]
                     block_len == Len(block)
                 IN IF ShouldClose(current, length, block_len, max_chars)
                    THEN Loop(i + 1, Append(sections, JoinBlocks(current)), <<block>>, block_len)
                    ELSE Loop(i + 1, sections, Append(current, block), length + block_len)
    IN IF blocks = <<>> THEN <<Strip(text)>> ELSE Loop(1, <<>>, <<>>, 0)

----------------------------------------------------------------------------
(* The asset filename sanitizer *)

IsSafeCharNoDot(c) == c \in Letters \/ c \in Digits \/ c \in {"_", "-"}

\* line 204: c.isalpha() or c.isdigit() or c in '._-'
IsSafeChar(c) == c \in Letters \/ c \in Digits \/ c \in {".", "_", "-"}

\* line 204: "".join([c for c in original_fname if ...]).strip()
SafeFname(original_fname) == Strip(SelectSeq(original_fname, IsSafeChar))

----------------------------------------------------------------------------
(* parse_toc_recursive *)

\* lines 114, 123, 132: href.split('#')[0]
FileHrefOf(href) == Split(href, <<"#">>)[1]

\* lines 115, 124, 133: href.split('#')[1] if '#' in href else ""
AnchorOf(href) ==
    IF "#" \in Range(href) THEN Split(href, <<"#">>)[2] ELSE <<>>

TOCEntry(title, href, children) ==
    [title |-> title, href |-> href, file_href |-> FileHrefOf(href),
     anchor |-> AnchorOf(href), children |-> children]

\* A source navigation node: type is "tuple" (Section with children), "Link",
\* "Section" (bare) or anything else, which parse_toc_recursive passes over.
NavNode(type, title, href, children) ==
    [type |-> type, title |-> title, href |-> href, children |-> children]

RECURSIVE parse_toc_recursive(_)
parse_toc_recursive(toc_list) ==
    IF toc_list = <<>> THEN <<>>
    ELSE LET item == Head(toc_list)
             rest == parse_toc_recursive(Tail(toc_list))
         IN IF item.type = "tuple"
            THEN <<TOCEntry(item.title, item.href, parse_toc_recursive(item.children))>> \o rest
            ELSE IF item.type \in {"Link", "Section"}
            THEN <<TOCEntry(item.title, item.href, <<>>)>> \o rest
            ELSE rest

\* every entry of a navigation tree, at any depth
RECURSIVE AllEntries(_)
AllEntries(toc) ==
    IF toc = <<>> THEN <<>>
    ELSE <<Head(toc)>> \o AllEntries(Head(toc).children) \o AllEntries(Tail(toc))

----------------------------------------------------------------------------
(* Image reference normalization *)

FixImageSrcDecoded(src_attr, map) ==
    IF src_attr = <<>> THEN src_attr
    ELSE LET src_decoded == unquote(src_attr)
             filename == Basename(src_decoded)
         IN IF src_decoded \in DOMAIN map THEN map[src_decoded]
            ELSE IF filename \in DOMAIN map THEN map[filename]
            ELSE src_decoded

\* lines 243-254: the value of img['src'] after the loop body
FixImageSrc(src_attr, map) ==
    IF src_attr = <<>> THEN src_attr
    ELSE LET src_decoded == unquote(src_attr)
             filename == Basename(src_decoded)
         IN IF src_decoded \in DOMAIN map THEN map[src_decoded]
            ELSE IF filename \in DOMAIN map THEN map[filename]
            ELSE src_attr

----------------------------------------------------------------------------
(* The source container, as ebooklib presents it *)

Document(id, name, imgs, raises) ==
    [id |-> id, name |-> name, type |-> "ITEM_DOCUMENT", imgs |-> imgs,
     data |-> 0, raises |-> raises]

Image(id, name, data) ==
    [id |-> id, name |-> name, type |-> "ITEM_IMAGE", imgs |-> <<>>,
     data |-> data, raises |-> FALSE]

\* "a.html": three image references (full path, bare filename under another
\* directory, no match)
Doc1 == Document("d1", <<"a", ".", "h", "t", "m", "l">>,
                 << <<"/", "%", "2", "0", "x">>, <<"0", "/", "x">>, <<"%", "2">> >>, FALSE)

\* "b_x.xhtml"
Doc2 == Document("d2", <<"b", "_", "x", ".", "x", "h", "t", "m", "l">>, <<>>, FALSE)

\* "x.html": markup on which the parsing library raises
Doc3 == Document("d3", <<"x", ".", "h", "t", "m", "l">>, <<>>, TRUE)

\* "/ x" and "x" share the sanitized name "x"; "%" sanitizes to ""
Img1 == Image("i1", <<"/", " ", "x">>, 1)

Img2 == Image("i2", <<"x">>, 2)

Img3 == Image("i3", <<"%">>, 3)

ItemPool == {Doc1, Doc2, Doc3, Img1, Img2, Img3}

\* book.get_items(): manifests of distinct items
Manifests ==
    {m \in StrsUpTo(ItemPool, MaxItems) : \A i, j \in DOMAIN m : i # j => m[i] # m[j]}

\* book.spine: the item ids of the linear order (the linear flag is unused);
\* "ghost" is an id no manifest item carries
SpineIds == {"d1", "d2", "d3", "i1", "ghost"}

Spines == StrsUpTo(SpineIds, MaxSpine)

\* book.toc
Tocs ==
    { <<>>,
      <<NavNode("Other", <<"t">>, <<"a">>, <<>>)>>,
      <<NavNode("tuple", <<"t">>, <<"a", ".", "h", "t", "m", "l">>,
                <<NavNode("Link", <<"t">>, <<"a", ".", "h", "t", "m", "l", "#", "x", "#", "b">>, <<>>)>>)>> }

EmptyBook == [items |-> <<>>, spine |-> <<>>, toc |-> <<>>]

Books == [items : Manifests, spine : Spines, toc : Tocs]

TextPool == { <<>>, <<"a">>, <<"a", "\n", "\n", "b">> }

Sources ==
    {[source_file |-> "book.epub", kind |-> "epub", readable |-> TRUE,
      book |-> b, raw_text |-> <<>>] : b \in Books}
    \cup {[source_file |-> "book.epub", kind |-> "epub", readable |-> FALSE,
           book |-> EmptyBook, raw_text |-> <<>>]}
    \cup {[source_file |-> "book.txt", kind |-> "txt", readable |-> r,
           book |-> EmptyBook, raw_text |-> IF r THEN t ELSE <<>>] : r \in BOOLEAN, t \in TextPool}

\* book.get_item_with_id: the first item of that id, NoItem when there is none
NoItem == [id |-> "", name |-> <<>>, type |-> "None", imgs |-> <<>>, data |-> 0, raises |-> FALSE]

get_item_with_id(book, item_id) ==
    IF \E i \in DOMAIN book.items : book.items[i].id = item_id
    THEN book.items[CHOOSE i \in DOMAIN book.items :
                        /\ book.items[i].id = item_id
                        /\ \A j \in 1..(i - 1) : book.items[j].id # item_id]
    ELSE NoItem

----------------------------------------------------------------------------
(* The output directory *)

EmptyMap == [k \in {} |-> k]

NoFile == "NoFile"

AbsentDir == [exists |-> FALSE, pkl |-> NoFile, images |-> EmptyMap]

\* lines 190-193, 334-336: rmtree if present, then makedirs(<output>/images)
FreshDir == [exists |-> TRUE, pkl |-> NoFile, images |-> EmptyMap]

ImagesPrefix == <<"i", "m", "a", "g", "e", "s", "/">>

\* line 207-208: os.path.join(images_dir, safe_fname) names a directory, which
\* open(..., 'wb') refuses
IsDirectoryPath(safe_fname) == safe_fname \in {<<>>, <<".">>, <<".", ".">>}

WriteFileKeepFirst(files, safe_fname, data) ==
    IF safe_fname \in DOMAIN files THEN files ELSE (safe_fname :> data) @@ files

\* lines 208-209: open(local_path, 'wb') truncates, then the bytes are written
WriteFile(files, safe_fname, data) == (safe_fname :> data) @@ files

\* lines 214-215
RegisterImage(map, name, original_fname, rel_path) ==
    (original_fname :> rel_path) @@ ((name :> rel_path) @@ map)

\* lines 199-215: the extraction loop over book.get_items(); ok is FALSE when
\* open() raised, with what had been written and registered until then
ExtractImages(items) ==
    LET RECURSIVE F(_, _, _)
        F(i, map, files) ==
            IF i > Len(items) THEN [ok |-> TRUE, image_map |-> map, files |-> files]
            ELSE LET item == items[i] IN
                 IF item.type # "ITEM_IMAGE" THEN F(i + 1, map, files)
                 ELSE LET original_fname == Basename(item.name)
                          safe_fname == SafeFname(original_fname)
                          rel_path == ImagesPrefix \o safe_fname
                      IN IF IsDirectoryPath(safe_fname)
                         THEN [ok |-> FALSE, image_map |-> map, files |-> files]
                         ELSE F(i + 1,
                                RegisterImage(map, item.name, original_fname, rel_path),
                                WriteFile(files, safe_fname, item.data))
    IN F(1, EmptyMap, EmptyMap)

----------------------------------------------------------------------------
(* Navigation fallback and the spine loop *)

\* line 149
FallbackTitle(name) ==
    Title(Replace(Replace(Replace(name, <<".", "h", "t", "m", "l">>, <<>>),
                          <<".", "x", "h", "t", "m", "l">>, <<>>),
                  <<"_">>, <<" ">>))

FallbackEntry(name) ==
    [title |-> FallbackTitle(name), href |-> name, file_href |-> name,
     anchor |-> <<>>, children |-> <<>>]

\* lines 140-151: one entry per ITEM_DOCUMENT of book.get_items()
RECURSIVE get_fallback_toc_items(_)
get_fallback_toc_items(items) ==
    IF items = <<>> THEN <<>>
    ELSE IF Head(items).type = "ITEM_DOCUMENT"
         THEN <<FallbackEntry(Head(items).name)>> \o get_fallback_toc_items(Tail(items))
         ELSE get_fallback_toc_items(Tail(items))

get_fallback_toc(book) == get_fallback_toc_items(book.items)

\* lines 219-222
ProcessedToc(book) ==
    IF parse_toc_recursive(book.toc) = <<>>
    THEN get_fallback_toc(book)
    ELSE parse_toc_recursive(book.toc)

FixImages(imgs, map) == [k \in DOMAIN imgs |-> FixImageSrc(imgs[k], map)]

\* lines 268-275: i is the zero-based enumerate index of book.spine
ChapterContent(item_id, item, i, map) ==
    [id |-> item_id, href |-> item.name, title |-> i + 1,
     content |-> FixImages(item.imgs, map), order |-> i]

\* lines 229-276: the loop over book.spine; ok is FALSE when the processing of
\* a unit raised (nothing in the loop catches it)
ProcessSpine(book, map) ==
    LET RECURSIVE F(_, _)
        F(n, chapters) ==
            IF n > Len(book.spine) THEN [ok |-> TRUE, chapters |-> chapters]
            ELSE LET i == n - 1
                     item_id == book.spine[n]
                     item == get_item_with_id(book, item_id)
                 IN IF item = NoItem THEN F(n + 1, chapters)
                    ELSE IF item.type # "ITEM_DOCUMENT" THEN F(n + 1, chapters)
                    ELSE IF item.raises THEN [ok |-> FALSE, chapters |-> chapters]
                    ELSE F(n + 1, Append(chapters, ChapterContent(item_id, item, i, map)))
    IN F(1, <<>>)

----------------------------------------------------------------------------
(* process_text_file *)

DigitChar(n) == <<"0", "1", "2", "3", "4", "5", "6", "7", "8", "9">>[n + 1]

SectionHref(idx) == <<"s", "e", "c", "t", "i", "o", "n", "-", DigitChar(idx)>>

\* lines 343-353
TextChapters(sections) ==
    [k \in DOMAIN sections |->
        [id |-> SectionHref(k - 1), href |-> SectionHref(k - 1), title |-> k,
         content |-> <<sections[k]>>, order |-> k - 1]]

\* lines 355-362
TextToc(chapters) ==
    [k \in DOMAIN chapters |->
        [title |-> chapters[k].title, href |-> chapters[k].href,
         file_href |-> chapters[k].href, anchor |-> <<>>, children |-> <<>>]]

\* lines 279-286, 372-379: the fields the serving layer joins on (metadata and
\* the timestamp take no part in any operation of the run)
Book(spine, toc, images, source_file) ==
    [spine |-> spine, toc |-> toc, images |-> images, source_file |-> source_file]

NoBook == Book(<<>>, <<>>, EmptyMap, "")

----------------------------------------------------------------------------
(* The processing run *)

Idle == pc = "idle"

NoSource ==
    [source_file |-> "", kind |-> "none", readable |-> FALSE,
     book |-> EmptyBook, raw_text |-> <<>>]

----------------------------------------------------------------------------
(* The serving layer's directories and cache (src/server.py) *)

EpubExt == <<".", "e", "p", "u", "b">>

TxtExt == <<".", "t", "x", "t">>

\* line 28
SUPPORTED_IMPORTS == {EpubExt, TxtExt}

\* the file names requests and users bring, a.epub and a.txt: two sources
\* of one slug
UploadNames == {<<"a">> \o EpubExt, <<"a">> \o TxtExt}

\* os.path.splitext of a bare file name: split at the last dot
SplitExt(filename) ==
    LET dots == {i \in DOMAIN filename : filename[i] = "."} IN
    IF dots = {} \/ dots = {1} THEN <<filename, <<>> >>
    ELSE LET d == CHOOSE i \in dots : \A j \in dots : j <= i IN
         <<SubSeq(filename, 1, d - 1), SubSeq(filename, d, Len(filename))>>

\* lines 33-34
slug_from_path(path) == SplitExt(Basename(path))[1]

DataSuffix == <<"_", "d", "a", "t", "a">>

\* lines 39, 70: the folder name under BOOKS_DIR
TargetDir(path) == slug_from_path(path) \o DataSuffix

Folders == {TargetDir(n) : n \in UploadNames}

\* the content of a file of the upload directory
Absent == "absent"

\* what open(dest_path, "wb") leaves until the file is closed, and what
\* overlapping writers of one path can leave: not the bytes of any upload
Partial == "partial"

\* file contents a client uploads or a user drops under a name
ContentsFor(filename) ==
    IF SplitExt(filename)[2] = TxtExt THEN {"text"}
    ELSE {"epub", "epub_bad_asset", "not_an_epub"}

\* what the pipeline reads from a file of the upload directory: a partial
\* archive cannot be opened, a partial text file reads as the empty text
SourceOfFile(filename, content) ==
    [source_file |-> filename,
     kind |-> IF SplitExt(filename)[2] = TxtExt THEN "txt" ELSE "epub",
     readable |-> IF SplitExt(filename)[2] = TxtExt
                  THEN content # Absent
                  ELSE content \in {"epub", "epub_bad_asset"},
     book |-> CASE content = "epub" -> [items |-> <<Doc1>>, spine |-> <<"d1">>, toc |-> <<>>]
                [] content = "epub_bad_asset" -> [items |-> <<Img3>>, spine |-> <<>>, toc |-> <<>>]
                [] OTHER -> EmptyBook,
     raw_text |-> IF content = "text" THEN <<"a">> ELSE <<>>]

\* the placeholder where no Book is held
NoDocument == Book(<<>>, <<>>, EmptyMap, <<>>)

\* the placeholder where no source file has been read
NoUpload == SourceOfFile(<<>>, Absent)

\* book.pkl of a folder: present or not, and the Book it pickles
NoPkl == [present |-> FALSE, book |-> NoDocument]

Pkl(book) == [present |-> TRUE, book |-> book]

NoDir == [exists |-> FALSE, images |-> EmptyMap, pkl |-> NoPkl]

\* reader3.py lines 190-193, 334-336
ClearedDir == [exists |-> TRUE, images |-> EmptyMap, pkl |-> NoPkl]

\* a cache slot: no entry, or the cached return value (None or a Book)
Uncached == [cached |-> FALSE, found |-> FALSE, book |-> NoDocument]

CachedNone == [cached |-> TRUE, found |-> FALSE, book |-> NoDocument]

CachedBook(book) == [cached |-> TRUE, found |-> TRUE, book |-> book]

\* load_book_cached.cache_clear()
ClearedCache == [k \in Folders |-> Uncached]

\* a request slot: dest says what the open upload file object refers to
NoRequest ==
    [kind |-> "none", pc |-> "idle", name |-> <<>>, content |-> Absent,
     dest |-> "none", todo |-> {}, source |-> NoUpload, book |-> NoDocument]

\* no load_book_cached call was made for a folder in the last step
NoResp == [called |-> FALSE, value |-> Uncached]

NoResps == [k \in Folders |-> NoResp]

RunParked ==
    /\ fs = AbsentDir
    /\ raised = "none"
    /\ src = NoSource
    /\ image_map = EmptyMap
    /\ toc_structure = <<>>
    /\ spine_chapters = <<>>
    /\ ret = NoBook

FnIdle == fn = "none" /\ arg = <<>> /\ out = <<>>

MaxRequests == 2

Requests == 1..MaxRequests

\* lines 29-30: both directories exist and are empty, nothing is cached
SrvIdle ==
    /\ uploads = [n \in UploadNames |-> Absent]
    /\ disk = [k \in Folders |-> NoDir]
    /\ cache = ClearedCache
    /\ req = [r \in Requests |-> NoRequest]
    /\ loop = 0
    /\ resp = NoResps

Init == pc = "idle" /\ RunParked /\ FnIdle /\ SrvIdle

\* process_epub lines 183-187: epub.read_epub succeeds
ReadEpub ==
    /\ Idle
    /\ \E s \in Sources :
        /\ s.kind = "epub" /\ s.readable
        /\ src' = s
    /\ pc' = "loaded"
    /\ raised' = "none"
    /\ image_map' = EmptyMap
    /\ toc_structure' = <<>>
    /\ spine_chapters' = <<>>
    /\ ret' = NoBook
    /\ UNCHANGED <<fs, fn, arg, out, srv>>

\* process_epub line 184: epub.read_epub raises; nothing else has run
ReadEpubFails ==
    /\ Idle
    /\ \E s \in Sources :
        /\ s.kind = "epub" /\ ~s.readable
        /\ src' = s
    /\ pc' = "failed"
    /\ raised' = "read_epub"
    /\ image_map' = EmptyMap
    /\ toc_structure' = <<>>
    /\ spine_chapters' = <<>>
    /\ ret' = NoBook
    /\ UNCHANGED <<fs, fn, arg, out, srv>>

\* process_epub lines 190-193
PrepareOutputEpub ==
    /\ pc = "loaded"
    /\ fs' = FreshDir
    /\ pc' = "prepared"
    /\ UNCHANGED <<raised, src, image_map, toc_structure, spine_chapters, ret, fn, arg, out, srv>>

\* process_epub lines 197-215
ExtractImagesStep ==
    /\ pc = "prepared"
    /\ LET r == ExtractImages(src.book.items) IN
        /\ image_map' = r.image_map
        /\ fs' = [fs EXCEPT !.images = r.files]
        /\ pc' = IF r.ok THEN "extracted" ELSE "failed"
        /\ raised' = IF r.ok THEN "none" ELSE "open"
    /\ UNCHANGED <<src, toc_structure, spine_chapters, ret, fn, arg, out, srv>>

\* process_epub lines 219-222
ProcessTocStep ==
    /\ pc = "extracted"
    /\ toc_structure' = ProcessedToc(src.book)
    /\ pc' = "toc"
    /\ UNCHANGED <<fs, raised, src, image_map, spine_chapters, ret, fn, arg, out, srv>>

\* process_epub lines 226-288
ProcessSpineStep ==
    /\ pc = "toc"
    /\ LET r == ProcessSpine(src.book, image_map) IN
        /\ spine_chapters' = r.chapters
        /\ pc' = IF r.ok THEN "returned" ELSE "failed"
        /\ raised' = IF r.ok THEN "none" ELSE "parse"
        /\ ret' = IF r.ok
                  THEN Book(r.chapters, toc_structure, image_map, src.source_file)
                  ELSE NoBook
    /\ UNCHANGED <<fs, src, image_map, toc_structure, fn, arg, out, srv>>

\* process_text_file lines 334-336
PrepareOutputText ==
    /\ Idle
    /\ \E s \in Sources :
        /\ s.kind = "txt"
        /\ src' = s
    /\ fs' = FreshDir
    /\ pc' = "text_prepared"
    /\ raised' = "none"
    /\ image_map' = EmptyMap
    /\ toc_structure' = <<>>
    /\ spine_chapters' = <<>>
    /\ ret' = NoBook
    /\ UNCHANGED <<fn, arg, out, srv>>

\* process_text_file lines 338-381; load_text_file lines 384-395 raises when
\* the file cannot be opened
ProcessTextStep ==
    /\ pc = "text_prepared"
    /\ IF src.readable
       THEN LET chapters == TextChapters(split_plain_text_sections(src.raw_text, DefaultMaxChars)) IN
            /\ spine_chapters' = chapters
            /\ toc_structure' = TextToc(chapters)
            /\ ret' = Book(chapters, TextToc(chapters), EmptyMap, src.source_file)
            /\ pc' = "returned"
            /\ raised' = "none"
       ELSE /\ pc' = "failed"
            /\ raised' = "load_text_file"
            /\ UNCHANGED <<spine_chapters, toc_structure, ret>>
    /\ UNCHANGED <<fs, src, image_map, fn, arg, out, srv>>

\* save_to_pickle lines 291-295, called with the returned Book (line 433,
\* src/server.py line 45); the model file is identified by Book.source_file
SaveToPickle ==
    /\ pc = "returned"
    /\ fs' = [fs EXCEPT !.pkl = ret.source_file]
    /\ pc' = "saved"
    /\ UNCHANGED <<raised, src, image_map, toc_structure, spine_chapters, ret, fn, arg, out, srv>>

\* the invocation is over (lines 433-439 after a save, the propagated
\* exception otherwise): only the output directory outlives it
Exit ==
    /\ pc \in {"saved", "failed"}
    /\ pc' = "idle"
    /\ raised' = "none"
    /\ src' = NoSource
    /\ image_map' = EmptyMap
    /\ toc_structure' = <<>>
    /\ spine_chapters' = <<>>
    /\ ret' = NoBook
    /\ UNCHANGED <<fs, fn, arg, out, srv>>

Next ==
    \/ ReadEpub
    \/ ReadEpubFails
    \/ PrepareOutputEpub
    \/ ExtractImagesStep
    \/ ProcessTocStep
    \/ ProcessSpineStep
    \/ PrepareOutputText
    \/ ProcessTextStep
    \/ SaveToPickle
    \/ Exit

Spec == Init /\ [][Next]_vars

----------------------------------------------------------------------------
(* SpecFn: the string functions, each applied once to an input of a       *)
(* bounded set                                                             *)

Texts == StrsUpTo({"a", " ", "\n", "\r"}, MaxTextLen)

Names == StrsUpTo({"x", "0", ".", "_", "-", " ", "%"}, MaxNameLen)

Refs == StrsUpTo({"x", "/", "%", "2", "0"}, MaxRefLen)

Hrefs == StrsUpTo({"x", "#"}, MaxHrefLen)

\* the lookup tables process_epub builds from the manifests of the model
ReachableImageMaps ==
    {ExtractImages(m).image_map : m \in {mm \in Manifests : ExtractImages(mm).ok}}

\* navigation structures of depth one to three, every node variant
TocLists ==
    {<<NavNode(t, <<"t">>, h, <<>>)>> : t \in {"Link", "Section", "Other"}, h \in Hrefs}
    \cup {<<NavNode("tuple", <<"t">>, h1, <<NavNode(t, <<"t">>, h2, <<>>)>>)>> :
            t \in {"Link", "Section"}, h1 \in Hrefs, h2 \in Hrefs}
    \cup {<<NavNode("tuple", <<"t">>, <<"x">>,
                    <<NavNode("tuple", <<"t">>, <<"x", "#">>,
                              <<NavNode("Link", <<"t">>, h, <<>>)>>)>>)>> : h \in Hrefs}

InitFn ==
    /\ pc = "call"
    /\ RunParked
    /\ SrvIdle
    /\ out = <<>>
    /\ \/ fn = "split_plain_text_sections" /\ arg \in [text : Texts, max_chars : 0..MaxCap]
       \/ fn = "safe_fname" /\ arg \in Names
       \/ fn = "fix_image_src" /\ arg \in [src : Refs, image_map : ReachableImageMaps]
       \/ fn = "parse_toc_recursive" /\ arg \in TocLists

CallSplitPlainTextSections ==
    /\ pc = "call" /\ fn = "split_plain_text_sections"
    /\ out' = split_plain_text_sections(arg.text, arg.max_chars)
    /\ pc' = "return"
    /\ UNCHANGED <<fs, raised, src, image_map, toc_structure, spine_chapters, ret, fn, arg, srv>>

CallSafeFname ==
    /\ pc = "call" /\ fn = "safe_fname"
    /\ out' = SafeFname(arg)
    /\ pc' = "return"
    /\ UNCHANGED <<fs, raised, src, image_map, toc_structure, spine_chapters, ret, fn, arg, srv>>

CallFixImageSrc ==
    /\ pc = "call" /\ fn = "fix_image_src"
    /\ out' = FixImageSrc(arg.src, arg.image_map)
    /\ pc' = "return"
    /\ UNCHANGED <<fs, raised, src, image_map, toc_structure, spine_chapters, ret, fn, arg, srv>>

CallParseTocRecursive ==
    /\ pc = "call" /\ fn = "parse_toc_recursive"
    /\ out' = parse_toc_recursive(arg)
    /\ pc' = "return"
    /\ UNCHANGED <<fs, raised, src, image_map, toc_structure, spine_chapters, ret, fn, arg, srv>>

NextFn ==
    \/ CallSplitPlainTextSections
    \/ CallSafeFname
    \/ CallFixImageSrc
    \/ CallParseTocRecursive

SpecFn == InitFn /\ [][NextFn]_vars

Returned(f) == fn = f /\ pc = "return"

----------------------------------------------------------------------------
(* Claims about the processing run (Spec) *)

Items == src.book.items

IsImage(i) == Items[i].type = "ITEM_IMAGE"

\* the run failed because the source could not be read or opened
SourceFailure == pc = "failed" /\ raised \in {"read_epub", "load_text_file"}

\* C1: a processing run that fails on an unreadable or unopenable source
\* leaves the output directory without the model file of an earlier run.
C1_FailedRunLeavesNoModelFile ==
    SourceFailure => fs.pkl = NoFile

\* the same for process_text_file alone, which clears the directory first
C1_TextFailureLeavesNoModelFile ==
    (SourceFailure /\ src.kind = "txt") => (fs.pkl = NoFile /\ fs.images = EmptyMap)

\* process_epub returned a Book
EpubReturned == src.kind = "epub" /\ pc \in {"returned", "saved"}

\* C2: in process_epub, when the parsed source navigation is empty, the
\* resulting toc has one entry per section of the resulting spine, in the same
\* order: equal lengths and toc[k].file_href = spine[k].href for every k.
C2_FallbackTocMatchesSpine ==
    (EpubReturned /\ parse_toc_recursive(src.book.toc) = <<>>) =>
        /\ Len(ret.toc) = Len(ret.spine)
        /\ \A k \in DOMAIN ret.toc : ret.toc[k].file_href = ret.spine[k].href

\* C3: in every returned Book the order values of the spine are gapless,
\* spine[k].order = k counting from zero, also when identifiers of the linear
\* order were skipped.
C3_OrderIsSpineIndex ==
    pc \in {"returned", "saved"} =>
        \A k \in DOMAIN ret.spine : ret.spine[k].order = k - 1

\* the spine loop of process_epub is over, one way or the other
SpineLoopOver ==
    src.kind = "epub" /\ (pc \in {"returned", "saved"} \/ (pc = "failed" /\ raised = "parse"))

\* the names of the resolvable, well-parsing content units of the linear order
ParsableHrefs(book) ==
    LET RECURSIVE F(_)
        F(n) ==
            IF n > Len(book.spine) THEN <<>>
            ELSE LET item == get_item_with_id(book, book.spine[n]) IN
                 IF item.type = "ITEM_DOCUMENT" /\ ~item.raises
                 THEN <<item.name>> \o F(n + 1)
                 ELSE F(n + 1)
    IN F(1)

\* C8: in process_epub a content unit whose processing raises is skipped: the
\* run does not abort, every other resolvable unit is in the spine in linear
\* order, and a Book is returned.
C8_BadUnitIsSkipped ==
    SpineLoopOver =>
        /\ pc # "failed"
        /\ [k \in DOMAIN ret.spine |-> ret.spine[k].href] = ParsableHrefs(src.book)

\* the asset extraction of process_epub ran to its end
AfterExtraction ==
    /\ src.kind = "epub"
    /\ \/ pc \in {"extracted", "toc", "returned", "saved"}
       \/ pc = "failed" /\ raised = "parse"

SafeNameOfItem(i) == SafeFname(Basename(Items[i].name))

\* the last image resource of the manifest whose sanitized name is f
LastImageNamed(f) ==
    CHOOSE i \in DOMAIN Items :
        /\ IsImage(i) /\ SafeNameOfItem(i) = f
        /\ \A j \in DOMAIN Items : (IsImage(j) /\ SafeNameOfItem(j) = f) => j <= i

\* C9: after asset extraction, for every image resource its internal path and
\* its bare filename are keys of the lookup table, mapping to
\* images/<sanitized bare filename>; every table value names a file of the
\* output directory; a file shared by several resources holds the bytes of the
\* last of them.
C9_LookupTableAndFiles ==
    AfterExtraction =>
        /\ \A i \in DOMAIN Items : IsImage(i) =>
            /\ Items[i].name \in DOMAIN image_map
            /\ Basename(Items[i].name) \in DOMAIN image_map
            /\ image_map[Items[i].name] = ImagesPrefix \o SafeNameOfItem(i)
            /\ image_map[Basename(Items[i].name)] = ImagesPrefix \o SafeNameOfItem(i)
        /\ \A k \in DOMAIN image_map :
            \E f \in DOMAIN fs.images : image_map[k] = ImagesPrefix \o f
        /\ \A f \in DOMAIN fs.images :
            /\ \E i \in DOMAIN Items : IsImage(i) /\ SafeNameOfItem(i) = f
            /\ fs.images[f] = Items[LastImageNamed(f)].data

\* two image resources of different names share one sanitized name, and the
\* extraction is over
C9_Witness ==
    /\ AfterExtraction
    /\ \E i, j \in DOMAIN Items :
        /\ i < j /\ IsImage(i) /\ IsImage(j)
        /\ Items[i].name # Items[j].name
        /\ SafeNameOfItem(i) = SafeNameOfItem(j)
        /\ fs.images[SafeNameOfItem(j)] = Items[j].data

----------------------------------------------------------------------------
(* Claims about the string functions (SpecFn) *)

\* a section split back at its blank-line separators
SectionParagraphs(section) == Split(section, BlankLine)

OutParagraphs == [k \in DOMAIN out |-> SectionParagraphs(out[k])]

\* C4, as stated: every section, measured as the string emitted, is at most
\* max_chars long unless it is one paragraph that is itself longer.
C4_EmittedLengthWithinCap ==
    Returned("split_plain_text_sections") =>
        \A k \in DOMAIN out :
            \/ Len(out[k]) <= arg.max_chars
            \/ Len(OutParagraphs[k]) = 1 /\ Len(out[k]) > arg.max_chars

\* C4, amended: the paragraphs of every section, not counting the inserted
\* blank-line separators, sum to at most max_chars unless the section is one
\* paragraph that is itself longer; the emitted string is longer than that sum
\* by two characters per separator.
C4_ParagraphLengthWithinCap ==
    Returned("split_plain_text_sections") =>
        \A k \in DOMAIN out :
            /\ \/ SumLen(OutParagraphs[k]) <= arg.max_chars
               \/ Len(OutParagraphs[k]) = 1 /\ Len(out[k]) > arg.max_chars
            /\ Len(out[k]) = SumLen(OutParagraphs[k]) + 2 * (Len(OutParagraphs[k]) - 1)

\* a section of several paragraphs whose emitted string is over the cap
C4_Witness ==
    /\ Returned("split_plain_text_sections")
    /\ \E k \in DOMAIN out :
        /\ Len(OutParagraphs[k]) >= 2
        /\ Len(out[k]) > arg.max_chars
        /\ SumLen(OutParagraphs[k]) <= arg.max_chars

\* C5, as stated: the sections split back at their separators and concatenated
\* are exactly the non-empty trimmed paragraphs of the input, in order.
C5_SectionsReproduceParagraphs ==
    Returned("split_plain_text_sections") =>
        Flatten(OutParagraphs) = Blocks(arg.text)

\* C5, amended: that holds for every input with at least one non-blank
\* paragraph; an input with none yields one empty section.
C5_SectionsReproduceNonEmptyInput ==
    Returned("split_plain_text_sections") =>
        IF Blocks(arg.text) = <<>>
        THEN out = << <<>> >>
        ELSE Flatten(OutParagraphs) = Blocks(arg.text)

\* several sections, one of them of several paragraphs
C5_Witness ==
    /\ Returned("split_plain_text_sections")
    /\ Len(out) >= 2
    /\ \E k \in DOMAIN out : Len(OutParagraphs[k]) >= 2
    /\ Flatten(OutParagraphs) = Blocks(arg.text)

\* C6: the normalized reference is table[d] when the URL-decoded reference d is
\* a key, else table[b] when the bare filename b of d is a key, else the
\* original reference, not its decoded form.
C6_ReferenceNormalization ==
    Returned("fix_image_src") =>
        LET d == unquote(arg.src)
            b == Basename(d)
        IN out = IF d \in DOMAIN arg.image_map THEN arg.image_map[d]
                 ELSE IF b \in DOMAIN arg.image_map THEN arg.image_map[b]
                 ELSE arg.src

\* an escaped reference under another directory, found by its bare filename
C6_Witness ==
    /\ Returned("fix_image_src")
    /\ unquote(arg.src) # arg.src
    /\ unquote(arg.src) \notin DOMAIN arg.image_map
    /\ Basename(unquote(arg.src)) \in DOMAIN arg.image_map
    /\ Basename(unquote(arg.src)) # unquote(arg.src)
    /\ out = arg.image_map[Basename(unquote(arg.src))]

HashAt(r) == {i \in DOMAIN r : r[i] = "#"}

FirstHash(r) == CHOOSE i \in HashAt(r) : \A j \in HashAt(r) : i <= j

BeforeFirstHash(r) ==
    IF HashAt(r) = {} THEN r ELSE SubSeq(r, 1, FirstHash(r) - 1)

AfterFirstHash(r) ==
    IF HashAt(r) = {} THEN <<>> ELSE SubSeq(r, FirstHash(r) + 1, Len(r))

\* C7: for every parsed node, file_href is the reference up to its first "#"
\* and anchor is all of the reference after its first "#" (empty without one).
C7_SplitOnFirstHash ==
    Returned("parse_toc_recursive") =>
        \A k \in DOMAIN AllEntries(out) :
            LET e == AllEntries(out)[k] IN
            /\ e.file_href = BeforeFirstHash(e.href)
            /\ e.anchor = AfterFirstHash(e.href)

\* the part of C7 about file_href
C7_FileHrefIsPrefix ==
    Returned("parse_toc_recursive") =>
        \A k \in DOMAIN AllEntries(out) :
            AllEntries(out)[k].file_href = BeforeFirstHash(AllEntries(out)[k].href)

SafeChars == Letters \cup Digits \cup {".", "_", "-"}

\* C10: the sanitizer leaves a name of safe characters as it is, is
\* idempotent, and returns safe characters only.
C10_SanitizerIdempotent ==
    Returned("safe_fname") =>
        /\ Range(arg) \subseteq SafeChars => out = arg
        /\ SafeFname(out) = out
        /\ Range(out) \subseteq SafeChars

\* the sanitizer was applied to a name of safe characters holding a dot
C10_Witness ==
    /\ Returned("safe_fname")
    /\ Range(arg) \subseteq SafeChars
    /\ "." \in Range(arg) /\ "x" \in Range(arg)
    /\ out = arg

----------------------------------------------------------------------------
(* The request handlers of src/server.py *)

\* what the pipeline variables hold while the server runs
PipelineParked == pc = "serving" /\ RunParked /\ FnIdle

InitServer == PipelineParked /\ SrvIdle

pipeline == <<fs, pc, raised, src, image_map, toc_structure, spine_chapters, ret, fn, arg, out>>

\* every handler is an async def run by the one event loop of uvicorn.run
\* (line 222); a handler gives the loop up only at an await

\* a synchronous stretch of a handler holds no await: ingest_book,
\* ingest_pending_files, delete_book and load_book_cached await nothing
SyncStepYieldsAlways == TRUE

SyncStepYields == FALSE

\* the event loop may run a step of request r
Turn(r) == loop \in {0, r}

\* the loop after a step of r's synchronous stretch
Hold(r) == IF SyncStepYields THEN 0 ELSE r

\* file names a client may send, one of them unsupported
UploadInputs == UploadNames \cup {<<"a", ".", "p", "d", "f">>}

\* the requests that have the upload file of a name open
Receiving(name) ==
    {q \in Requests : req[q].pc = "receiving" /\ req[q].name = name /\ req[q].dest # "unlinked"}

\* upload_book lines 174-182, up to the first await: open(dest_path, "wb")
\* truncates the file
UploadOpen(r) ==
    /\ loop = 0
    /\ req[r] = NoRequest
    /\ \E name \in UploadInputs :
        /\ SplitExt(name)[2] \in SUPPORTED_IMPORTS
        /\ \E content \in ContentsFor(name) :
            req' = [q \in Requests |->
                      IF q = r
                      THEN [NoRequest EXCEPT !.kind = "upload", !.pc = "receiving",
                                             !.name = Basename(name), !.content = content,
                                             !.dest = IF Receiving(name) = {} THEN "own" ELSE "shared"]
                      ELSE IF q \in Receiving(name)
                           THEN [req[q] EXCEPT !.dest = "shared"]
                           ELSE req[q]]
        /\ uploads' = [uploads EXCEPT ![Basename(name)] = Partial]
    /\ loop' = 0
    /\ resp' = NoResps
    /\ UNCHANGED <<disk, cache, pipeline>>

\* what the file holds once the with block of lines 180-185 closes it
ClosedContents(r) ==
    CASE req[r].dest = "own" -> {req[r].content}
      [] req[r].dest = "shared" -> {req[r].content, Partial}
      [] OTHER -> {uploads[req[r].name]}

\* upload_book lines 183-187: the last chunk arrived; the file is closed and
\* ingest_book is entered without another await
UploadClose(r) ==
    /\ Turn(r)
    /\ req[r].pc = "receiving"
    /\ \E c \in ClosedContents(r) :
        uploads' = [uploads EXCEPT ![req[r].name] = c]
    /\ req' = [req EXCEPT ![r].pc = "ingest", ![r].dest = "none"]
    /\ loop' = Hold(r)
    /\ resp' = NoResps
    /\ UNCHANGED <<disk, cache, pipeline>>

\* library_view lines 100-101, ingest_pending_files line 65: os.listdir
ViewStart(r) ==
    /\ loop = 0
    /\ req[r] = NoRequest
    /\ req' = [req EXCEPT ![r] =
                 [NoRequest EXCEPT !.kind = "view", !.pc = "scan",
                                   !.todo = {n \in UploadNames : uploads[n] # Absent}]]
    /\ loop' = Hold(r)
    /\ resp' = NoResps
    /\ UNCHANGED <<uploads, disk, cache, pipeline>>

\* ingest_pending_files lines 65-75: the next listed file; one whose folder
\* exists is passed over
ViewNext(r) ==
    /\ Turn(r)
    /\ req[r].pc = "scan"
    /\ \E n \in req[r].todo :
        /\ SplitExt(n)[2] \in SUPPORTED_IMPORTS
        /\ req' = [req EXCEPT ![r] =
                     IF disk[TargetDir(n)].exists
                     THEN [@ EXCEPT !.todo = @ \ {n}]
                     ELSE [@ EXCEPT !.pc = "ingest", !.name = n]]
    /\ loop' = Hold(r)
    /\ resp' = NoResps
    /\ UNCHANGED <<uploads, disk, cache, pipeline>>

\* lines 85-95: what load_book_cached computes on a miss
LoadFromDisk(k) ==
    IF disk[k].exists /\ disk[k].pkl.present
    THEN CachedBook(disk[k].pkl.book)
    ELSE CachedNone

\* lines 79-80: functools.lru_cache returns the stored value on a hit
load_book_cached(k) == IF cache[k].cached THEN cache[k] ELSE LoadFromDisk(k)

\* library_view lines 104-120: every listed folder is loaded through the cache
ViewList(r) ==
    /\ Turn(r)
    /\ req[r].pc = "scan"
    /\ req[r].todo = {}
    /\ cache' = [k \in Folders |-> IF disk[k].exists THEN load_book_cached(k) ELSE cache[k]]
    /\ resp' = [k \in Folders |->
                  IF disk[k].exists
                  THEN [called |-> TRUE, value |-> load_book_cached(k)]
                  ELSE NoResp]
    /\ req' = [req EXCEPT ![r] = NoRequest]
    /\ loop' = 0
    /\ UNCHANGED <<uploads, disk, pipeline>>

\* the request once ingest_book returned or raised: upload_book ends (line
\* 188, or the error response), ingest_pending_files goes on (lines 76-77)
AfterIngest(r) ==
    IF req[r].kind = "upload"
    THEN NoRequest
    ELSE [req[r] EXCEPT !.pc = "scan", !.todo = @ \ {req[r].name}, !.name = <<>>,
                        !.source = NoUpload, !.book = NoDocument]

LoopAfterIngest(r) == IF req[r].kind = "upload" THEN 0 ELSE Hold(r)

\* ingest_book lines 38-44 into reader3.py: process_epub reads the archive
\* (line 184) and then clears the folder (lines 190-193); process_text_file
\* clears it first (lines 334-336)
IngestPrepare(r) ==
    /\ Turn(r)
    /\ req[r].pc = "ingest"
    /\ LET n == req[r].name
           s == SourceOfFile(n, uploads[n])
       IN IF s.kind = "epub" /\ ~s.readable
          THEN /\ req' = [req EXCEPT ![r] = AfterIngest(r)]
               /\ loop' = LoopAfterIngest(r)
               /\ UNCHANGED disk
          ELSE /\ disk' = [disk EXCEPT ![TargetDir(n)] = ClearedDir]
               /\ req' = [req EXCEPT ![r].pc = "cleared",
                                     ![r].source = IF s.kind = "epub" THEN s ELSE NoUpload]
               /\ loop' = Hold(r)
    /\ resp' = NoResps
    /\ UNCHANGED <<uploads, cache, pipeline>>

\* process_epub lines 198-288: what the run builds, and the files of the
\* images folder it wrote on the way
BuildEpub(s) ==
    LET ex == ExtractImages(s.book.items)
        sp == ProcessSpine(s.book, ex.image_map)
    IN [ok |-> ex.ok /\ sp.ok,
        images |-> ex.files,
        book |-> IF ex.ok /\ sp.ok
                 THEN Book(sp.chapters, ProcessedToc(s.book), ex.image_map, s.source_file)
                 ELSE NoDocument]

\* process_text_file lines 338-381
BuildText(s) ==
    LET chapters == TextChapters(split_plain_text_sections(s.raw_text, DefaultMaxChars)) IN
    [ok |-> s.readable,
     images |-> EmptyMap,
     book |-> IF s.readable
              THEN Book(chapters, TextToc(chapters), EmptyMap, s.source_file)
              ELSE NoDocument]

\* the rest of process_epub / process_text_file after the folder was cleared
IngestBuild(r) ==
    /\ Turn(r)
    /\ req[r].pc = "cleared"
    /\ LET n == req[r].name
           b == IF SplitExt(n)[2] = TxtExt
                THEN BuildText(SourceOfFile(n, uploads[n]))
                ELSE BuildEpub(req[r].source)
       IN /\ disk' = [disk EXCEPT ![TargetDir(n)].images = b.images]
          /\ IF b.ok
             THEN /\ req' = [req EXCEPT ![r].pc = "built", ![r].book = b.book]
                  /\ loop' = Hold(r)
             ELSE /\ req' = [req EXCEPT ![r] = AfterIngest(r)]
                  /\ loop' = LoopAfterIngest(r)
    /\ resp' = NoResps
    /\ UNCHANGED <<uploads, cache, pipeline>>

\* ingest_book lines 45-47: save_to_pickle (reader3.py lines 291-295, the
\* folder is made if missing) and cache_clear
IngestSave(r) ==
    /\ Turn(r)
    /\ req[r].pc = "built"
    /\ disk' = [disk EXCEPT ![TargetDir(req[r].name)] =
                  [@ EXCEPT !.exists = TRUE, !.pkl = Pkl(req[r].book)]]
    /\ cache' = ClearedCache
    /\ req' = [req EXCEPT ![r] = AfterIngest(r)]
    /\ loop' = LoopAfterIngest(r)
    /\ resp' = NoResps
    /\ UNCHANGED <<uploads, pipeline>>

\* remove_source_file line 208
SlugOfFolder(book_id) ==
    IF Len(book_id) >= 5 /\ SubSeq(book_id, Len(book_id) - 4, Len(book_id)) = DataSuffix
    THEN SubSeq(book_id, 1, Len(book_id) - 5)
    ELSE book_id

\* remove_source_file lines 210-213: the files it removes
SourceFilesOf(book_id) ==
    {n \in UploadNames : /\ uploads[n] # Absent
                         /\ SplitExt(n)[1] = SlugOfFolder(book_id)
                         /\ SplitExt(n)[2] \in SUPPORTED_IMPORTS}

\* delete_book lines 192-204: no await; a file removed while an upload has
\* it open stays open and unlinked
delete_book(book_id) ==
    /\ loop = 0
    /\ disk[book_id].exists
    /\ disk' = [disk EXCEPT ![book_id] = NoDir]
    /\ uploads' = [n \in UploadNames |-> IF n \in SourceFilesOf(book_id) THEN Absent ELSE uploads[n]]
    /\ req' = [q \in Requests |->
                 IF req[q].pc = "receiving" /\ req[q].name \in SourceFilesOf(book_id)
                 THEN [req[q] EXCEPT !.dest = "unlinked"]
                 ELSE req[q]]
    /\ cache' = ClearedCache
    /\ resp' = NoResps
    /\ UNCHANGED <<loop, pipeline>>

\* read_chapter lines 127-130: load_book_cached(book_id)
read_chapter(book_id) ==
    /\ loop = 0
    /\ cache' = [cache EXCEPT ![book_id] = load_book_cached(book_id)]
    /\ resp' = [NoResps EXCEPT ![book_id] = [called |-> TRUE, value |-> load_book_cached(book_id)]]
    /\ UNCHANGED <<uploads, disk, req, loop, pipeline>>

\* a user drops a file into BOOK_UPLOAD_DIR (lines 61-64)
DropFile ==
    /\ \E n \in UploadNames :
        /\ uploads[n] = Absent
        /\ \E c \in ContentsFor(n) : uploads' = [uploads EXCEPT ![n] = c]
    /\ resp' = NoResps
    /\ UNCHANGED <<disk, cache, req, loop, pipeline>>

NextServer ==
    \/ \E r \in Requests : UploadOpen(r)
    \/ \E r \in Requests : UploadClose(r)
    \/ \E r \in Requests : ViewStart(r)
    \/ \E r \in Requests : ViewNext(r)
    \/ \E r \in Requests : ViewList(r)
    \/ \E r \in Requests : IngestPrepare(r)
    \/ \E r \in Requests : IngestBuild(r)
    \/ \E r \in Requests : IngestSave(r)
    \/ \E k \in Folders : delete_book(k)
    \/ \E k \in Folders : read_chapter(k)
    \/ DropFile

SpecServer == InitServer /\ [][NextServer]_vars

----------------------------------------------------------------------------
(* Claims about the serving layer *)

\* C11: whatever sequence of ingest_book, delete_book and load_book_cached
\* calls came before, failed processing runs included, every value
\* load_book_cached(k) returns is the Book stored in book.pkl of folder k,
\* and None when folder k holds no model file.
C11_LoadReturnsWhatIsOnDisk ==
    \A k \in Folders : resp[k].called => resp[k].value = LoadFromDisk(k)

\* a failed run had cleared the folder, and the load that followed returned
\* a Book although the folder holds no model file
C11_StaleAfterFailedRun ==
    \E k \in Folders :
        /\ resp[k].called /\ resp[k].value.found
        /\ disk[k].exists /\ ~disk[k].pkl.present

\* request r is inside a pipeline run: its folder was cleared and its model
\* file is not saved yet
RunActive(r) == req[r].pc \in {"cleared", "built"}

\* the output directory of the run of request r
RunDir(r) == TargetDir(req[r].name)

\* no two runs into one output directory are active at once
NoOverlappingRuns ==
    \A r1, r2 \in Requests :
        (r1 # r2 /\ RunActive(r1) /\ RunActive(r2)) => RunDir(r1) # RunDir(r2)

\* while a run is active only its own steps change its output directory
OnlyOwnStepsTouchRunDir ==
    \A r \in Requests :
        (RunActive(r) /\ disk'[RunDir(r)] # disk[RunDir(r)]) => req'[r] # req[r]

\* C12: under every interleaving of upload_book, library_view and
\* delete_book requests, no two pipeline runs into one output directory
\* overlap: between a run's directory clear and its model save no other run
\* and no delete changes that directory.
C12_RunsOnOneFolderDoNotOverlap ==
    [][NoOverlappingRuns /\ NoOverlappingRuns' /\ OnlyOwnStepsTouchRunDir]_vars

\* a run is between its clear and its save while another upload into the
\* same folder is in flight
C12_Witness ==
    \E r1, r2 \in Requests :
        /\ r1 # r2
        /\ RunActive(r1)
        /\ req[r2].pc = "receiving"
        /\ TargetDir(req[r2].name) = RunDir(r1)

====
